---- MODULE Spec2Model ----
(***************************************************************************)
(* drive-sync (src/drive_sync.py): one invocation of main() synchronises   *)
(* one local file with its counterpart in a remote Google Drive tree.      *)
(* The model is the sequence of invocations of main() on one machine, the  *)
(* Drive tree they act on and the local files, with the user editing local *)
(* files between invocations.                                              *)
(*                                                                         *)
(* Names are sequences of one-character strings, so that os.path.splitext  *)
(* and the extension-based MIME guess are computed, not tabulated.         *)
(* The Drive listing order is not specified by the API: the remote store   *)
(* is a sequence whose order is arbitrary (any initial order, a new file   *)
(* enters at either end) but stable while the store is unchanged.          *)
(***************************************************************************)
EXTENDS Integers, Sequences, FiniteSets, TLC

\* ------------------------------------------------------------------ bounds
MaxRuns == 2
MaxEdits == 1

\* --------------------------------------------------------------- constants
pageSize == 10

FOLDER == "application/vnd.google-apps.folder"
DOCUMENT == "application/vnd.google-apps.document"
SPREADSHEET == "application/vnd.google-apps.spreadsheet"
PRESENTATION == "application/vnd.google-apps.presentation"
DRAWING == "application/vnd.google-apps.drawing"
TEXT_PLAIN == "text/plain"
TEXT_CSV == "text/csv"
DOCX == "application/vnd.openxmlformats-officedocument.wordprocessingml.document"
XLSX == "application/vnd.openxmlformats-officedocument.spreadsheetml.sheet"
PPTX == "application/vnd.openxmlformats-officedocument.presentationml.presentation"
OCTET_STREAM == "application/octet-stream"

\* The MIME types whose text contains 'google-apps'.
GoogleAppsTypes == {FOLDER, DOCUMENT, SPREADSHEET, PRESENTATION, DRAWING}

MIME_TYPE_MAP ==
  [m \in {DOCX, XLSX, TEXT_CSV, TEXT_PLAIN, PPTX} |->
     CASE m = DOCX -> DOCUMENT
       [] m = XLSX -> SPREADSHEET
       [] m = TEXT_CSV -> SPREADSHEET
       [] m = TEXT_PLAIN -> DOCUMENT
       [] m = PPTX -> PRESENTATION]

GOOGLE_DOC_EXPORT_MAP ==
  [m \in {DOCUMENT, SPREADSHEET, PRESENTATION} |->
     CASE m = DOCUMENT -> DOCX
       [] m = SPREADSHEET -> XLSX
       [] m = PRESENTATION -> PPTX]

None == "None"
Nil == [nil |-> TRUE]
ROOT == 0

\* ------------------------------------------------------------------- names
N_FileSync == <<"F", "i", "l", "e", "S", "y", "n", "c">>
N_host == <<"h", "o", "s", "t">>
N_a == <<"a">>
N_b == <<"b">>
N_r == <<"r">>
N_b_txt == <<"b", ".", "t", "x", "t">>
N_r_bin == <<"r", ".", "b", "i", "n">>
N_empty == <<>>

\* The local paths a run may be given, as path_parts.
P_b == <<N_a, N_b_txt>>
P_r == <<N_a, N_b, N_r_bin>>
P_d == <<N_a, N_b>>
LocalFiles == {P_b, P_r}
LocalPaths == LocalFiles \cup {P_d}
NoPath == <<>>

Directions == {"auto", "local-to-remote", "remote-to-local"}
BasePaths == {<<N_FileSync>>, <<N_empty>>}
device_name == N_host

\* ---------------------------------------------------------------- contents
Raw(n) == <<"raw", n>>
Contents == {Raw(1), Raw(2)}
Truncated == <<"empty", 0>>
\* Drive's conversion of uploaded bytes into a native document.
Converted(c) == <<"native", c[2]>>
\* The bytes Drive exports for a native document.
Exported(c) == <<"export", c[2]>>

calculate_md5(c) == <<"md5", c>>

\* ----------------------------------------------------------------- helpers
Max(S) == CHOOSE x \in S : \A y \in S : y <= x

\* os.path.splitext(name)[0]: cut at the last dot, unless only dots precede it.
splitext(name) ==
  LET dots == {k \in 1..Len(name) : name[k] = "."}
  IN IF dots = {} THEN name
     ELSE LET d == Max(dots)
          IN IF \E k \in 1..(d - 1) : name[k] # "."
             THEN SubSeq(name, 1, d - 1)
             ELSE name

\* The extension os.path.splitext cuts off, which the MIME guess goes by.
Extension(name) == SubSeq(name, Len(splitext(name)) + 1, Len(name))

\* MediaFileUpload(path).mimetype(): guessed from the extension.
mimetype(name) ==
  LET e == Extension(name)
  IN CASE e = <<".", "t", "x", "t">> -> TEXT_PLAIN
       [] e = <<".", "c", "s", "v">> -> TEXT_CSV
       [] OTHER -> OCTET_STREAM

is_google_apps(m) == m \in GoogleAppsTypes

Take(s, n) == SubSeq(s, 1, IF Len(s) < n THEN Len(s) ELSE n)

Ids(s) == {s[k].id : k \in 1..Len(s)}

Node(id, name, parent, mime, content, t) ==
  [id |-> id, name |-> name, parent |-> parent, mimeType |-> mime,
   md5Checksum |-> IF is_google_apps(mime) THEN None ELSE calculate_md5(content),
   modifiedTime |-> t, content |-> content, trashed |-> FALSE]

Insert(s, n, front) == IF front THEN <<n>> \o s ELSE Append(s, n)

\* ------------------------------------------------------------------- state
VARIABLES
  remote,          \* the Drive store: a sequence of file objects, in listing order
  nextId,          \* the next object id Drive hands out
  local,           \* local files: path_parts -> [content, mtime]
  now,             \* the wall clock
  token,           \* the token cache file: "none" or "valid"
  base_path_parts, \* args.base_path.strip('/').split('/'), fixed per machine
  pc,              \* where main() stands
  args,            \* the run's arguments: [path, direction]
  i,               \* the index of get_remote_path_id's loop
  current_parent_id,
  remote_file,     \* what find_remote_file returned, or Nil
  effective_direction,
  calls,           \* the Drive API calls of this run, in order
  local_opened,    \* whether this run opened the local file for writing
  outcome,         \* what the run printed last
  exit_status,     \* the process's exit status, -1 while it runs
  runs,            \* the invocations so far
  edits,           \* the local edits so far
  resolved,        \* this run's resolution: [chain, id], or Nil
  prev_resolved,   \* the resolution before this run's, or Nil
  created_folders, \* the ids of the folders get_or_create_folder_id created
  prev_upload,     \* the file the run before this one uploaded as new under
                   \* auto and that was not edited since, or NoPath
  edited,          \* the local files edited since the last run started
  local_before     \* the local file as this run found it: [content, mtime]

vars == <<remote, nextId, local, now, token, base_path_parts, pc, args, i,
          current_parent_id, remote_file, effective_direction, calls,
          local_opened, outcome, exit_status, runs, edits, resolved,
          prev_resolved, created_folders, prev_upload, edited, local_before>>

run_vars == <<i, current_parent_id, remote_file, effective_direction>>
hist_vars == <<resolved, prev_resolved, created_folders, prev_upload, edited,
               local_before>>

\* --------------------------------------------------- the remote trees of Init
\* The folders of a/b below the base path and the device, made at time t.
Chain(base, t) ==
  (IF base = <<N_empty>> THEN <<>> ELSE <<Node(1, N_FileSync, ROOT, FOLDER, Raw(0), t)>>)
  \o << Node(2, N_host, IF base = <<N_empty>> THEN ROOT ELSE 1, FOLDER, Raw(0), t),
        Node(3, N_a, 2, FOLDER, Raw(0), t),
        Node(4, N_b, 3, FOLDER, Raw(0), t) >>

\* Chain(base, t) without its last n folders.
Stem(base, t, n) == SubSeq(Chain(base, t), 1, Len(Chain(base, t)) - n)

InitTrees(base) ==
  IF base = <<N_empty>>
  THEN {<<>>, Chain(base, 2)}
  ELSE
  {<<>>}
  \* the folders alone, b older or newer than the local b.txt
  \cup {Chain(base, t) : t \in {0, 2}}
  \* a binary r.bin, same or other bytes, older, as old or newer than the local file
  \cup {Chain(base, 1) \o <<Node(5, N_r_bin, 4, OCTET_STREAM, c, t)>> :
          c \in Contents, t \in 0..2}
  \* a converted b.txt
  \cup {Stem(base, 1, 1) \o <<Node(5, N_b_txt, 3, DOCUMENT, Converted(Raw(2)), t)>> :
          t \in 0..2}
  \* a binary b.txt and a converted b, in both listing orders
  \cup {Stem(base, 1, 1) \o <<Node(5, N_b_txt, 3, OCTET_STREAM, Raw(2), 0),
                              Node(6, N_b, 3, DOCUMENT, Converted(Raw(2)), 0)>>,
        Stem(base, 1, 1) \o <<Node(6, N_b, 3, DOCUMENT, Converted(Raw(2)), 0),
                              Node(5, N_b_txt, 3, OCTET_STREAM, Raw(2), 0)>>}
  \* two binary matches of r.bin, in both listing orders
  \cup {Chain(base, 1) \o <<Node(5, N_r_bin, 4, OCTET_STREAM, Raw(1), 2),
                            Node(6, N_r, 4, OCTET_STREAM, Raw(2), 2)>>,
        Chain(base, 1) \o <<Node(6, N_r, 4, OCTET_STREAM, Raw(2), 2),
                            Node(5, N_r_bin, 4, OCTET_STREAM, Raw(1), 2)>>}
  \* a native type without an export format
  \cup {Stem(base, 1, 1) \o <<Node(5, N_b, 3, DRAWING, Converted(Raw(2)), 2)>>}
  \* two folders a under the same parent, in both listing orders
  \cup {Stem(base, 1, 1) \o <<Node(5, N_a, 2, FOLDER, Raw(0), 1)>>,
        Stem(base, 1, 2) \o <<Node(5, N_a, 2, FOLDER, Raw(0), 1),
                              Node(3, N_a, 2, FOLDER, Raw(0), 1)>>}
  \* a trashed folder a
  \cup {Stem(base, 1, 2)
          \o <<[Node(3, N_a, 2, FOLDER, Raw(0), 1) EXCEPT !.trashed = TRUE]>>}

Init ==
  /\ nextId = 7
  /\ local = [p \in LocalFiles |-> [content |-> Raw(1), mtime |-> 1]]
  /\ now = 2
  /\ token = "none"
  /\ base_path_parts \in BasePaths
  /\ remote \in InitTrees(base_path_parts)
  /\ pc = "idle"
  /\ args = Nil
  /\ i = 0
  /\ current_parent_id = ROOT
  /\ remote_file = Nil
  /\ effective_direction = None
  /\ calls = <<>>
  /\ local_opened = FALSE
  /\ outcome = None
  /\ exit_status = -1
  /\ runs = 0
  /\ edits = 0
  /\ resolved = Nil
  /\ prev_resolved = Nil
  /\ created_folders = {}
  /\ prev_upload = NoPath
  /\ edited = {}
  /\ local_before = Nil

\* ------------------------------------------------------- the Drive store
\* FolderQuery with the trashed test the wrong way round.
FolderQuery_Trashed(folder_name, parent_id) ==
  SelectSeq(remote, LAMBDA f : /\ f.name = folder_name
                               /\ f.mimeType = FOLDER
                               /\ f.parent = parent_id
                               /\ f.trashed)

\* files().list(q = name, folder type, parent, not trashed): the matching folders.
FolderQuery(folder_name, parent_id) ==
  SelectSeq(remote, LAMBDA f : /\ f.name = folder_name
                               /\ f.mimeType = FOLDER
                               /\ f.parent = parent_id
                               /\ ~f.trashed)

\* files().list(q = (name or base name), parent, not trashed, pageSize = 10).
FileQuery(file_name, base_name, parent_folder_id) ==
  Take(SelectSeq(remote, LAMBDA f : /\ (f.name = file_name \/ f.name = base_name)
                                    /\ f.parent = parent_folder_id
                                    /\ ~f.trashed),
       pageSize)

\* PickMatch without the preference for a native type.
PickMatch_First(files) == IF files = <<>> THEN Nil ELSE files[1]

\* What find_remote_file picks from the listing.
PickMatch(files) ==
  IF files = <<>> THEN Nil
  ELSE IF Len(files) > 1 /\ \E k \in 1..Len(files) : is_google_apps(files[k].mimeType)
       THEN files[CHOOSE k \in 1..Len(files) :
                    /\ is_google_apps(files[k].mimeType)
                    /\ \A j \in 1..(k - 1) : ~is_google_apps(files[j].mimeType)]
       ELSE files[1]

find_remote_file(file_name, parent_folder_id) ==
  PickMatch(FileQuery(file_name, splitext(file_name), parent_folder_id))

\* files().delete(fileId): the object goes, and with a folder all it holds.
RECURSIVE Doomed(_, _)
Doomed(s, S) ==
  LET T == S \cup {s[k].id : k \in {j \in 1..Len(s) : s[j].parent \in S}}
  IN IF T = S THEN S ELSE Doomed(s, T)

Deleted(s, id) == SelectSeq(s, LAMBDA f : f.id \notin Doomed(s, {id}))

\* The file object create_drive_file asks Drive to make.
UploadedNode(id, file_name, parent_folder_id, content, t) ==
  LET guess == mimetype(file_name)
  IN IF guess \in DOMAIN MIME_TYPE_MAP
     THEN Node(id, file_name, parent_folder_id, MIME_TYPE_MAP[guess],
               Converted(content), t)
     ELSE Node(id, file_name, parent_folder_id, guess, content, t)

\* files().update(fileId, media_body): the bytes are replaced in place.
Updated(s, id, content, t) ==
  [k \in 1..Len(s) |->
     IF s[k].id = id
     THEN [s[k] EXCEPT !.content = content,
                       !.md5Checksum = calculate_md5(content),
                       !.modifiedTime = t]
     ELSE s[k]]

\* ------------------------------------------------------------ a run's parts
remote_folder_path_parts(path_parts) ==
  base_path_parts \o <<device_name>> \o SubSeq(path_parts, 1, Len(path_parts) - 1)

file_name_of(path_parts) == path_parts[Len(path_parts)]

\* How a run ends: what it printed and the status the process exits with.
End(what, status) ==
  /\ pc' = "done"
  /\ outcome' = what
  /\ exit_status' = status

\* An HttpError caught at the end of main: a panel is printed, main returns.
HttpError == End("api_error", 0)

\* ----------------------------------------------------------------- actions
\* main, to the check of the local path: a path that is no file ends the run.
Start(path, direction) ==
  /\ pc \in {"idle", "done"}
  /\ runs < MaxRuns
  /\ runs' = runs + 1
  /\ args' = [path |-> path, direction |-> direction]
  /\ i' = 1
  /\ current_parent_id' = ROOT
  /\ remote_file' = Nil
  /\ effective_direction' = None
  /\ calls' = <<>>
  /\ local_opened' = FALSE
  /\ prev_upload' = IF /\ pc = "done"
                       /\ outcome = "uploaded"
                       /\ args.direction = "auto"
                       /\ args.path \notin edited
                    THEN args.path
                    ELSE NoPath
  /\ edited' = {}
  /\ local_before' = IF path \in DOMAIN local THEN local[path] ELSE Nil
  /\ prev_resolved' = IF resolved # Nil THEN resolved ELSE prev_resolved
  /\ resolved' = Nil
  /\ IF path \notin DOMAIN local
     THEN End("not_a_file", 0)
     ELSE /\ pc' = "auth"
          /\ outcome' = None
          /\ exit_status' = -1
  /\ UNCHANGED <<remote, nextId, local, now, token, base_path_parts, edits,
                 created_folders>>

\* get_drive_service: a valid cached token, or the browser flow, which needs the
\* credential file and may fail.
get_drive_service ==
  /\ pc = "auth"
  /\ IF token = "valid"
     THEN /\ pc' = "resolve"
          /\ UNCHANGED <<token, outcome, exit_status>>
     ELSE \E credentials_exist \in BOOLEAN, flow_ok \in BOOLEAN :
            IF ~credentials_exist
            THEN /\ End("no_credentials", 1)
                 /\ UNCHANGED token
            ELSE IF flow_ok
                 THEN /\ token' = "valid"
                      /\ pc' = "resolve"
                      /\ UNCHANGED <<outcome, exit_status>>
                 ELSE /\ End("unknown_error", 0)
                      /\ UNCHANGED token
  /\ UNCHANGED <<remote, nextId, local, now, base_path_parts, args, run_vars,
                 calls, local_opened, runs, edits, hist_vars>>

\* One turn of get_remote_path_id's loop: get_or_create_folder_id for a part
\* that is not empty. A folder is created only where the listing found none, so
\* its place among the listed folders decides nothing: it is listed last.
get_or_create_folder_id ==
  /\ pc = "resolve"
  /\ i <= Len(remote_folder_path_parts(args.path))
  /\ LET part == remote_folder_path_parts(args.path)[i]
         files == FolderQuery(part, current_parent_id)
     IN \/ /\ part = N_empty
           /\ i' = i + 1
           /\ UNCHANGED <<remote, nextId, current_parent_id, calls, pc, outcome,
                          exit_status, created_folders>>
        \/ /\ part # N_empty
           /\ calls' = Append(calls, "list")
           /\ HttpError
           /\ UNCHANGED <<remote, nextId, current_parent_id, i, created_folders>>
        \/ /\ part # N_empty
           /\ files # <<>>
           /\ calls' = Append(calls, "list")
           /\ current_parent_id' = files[1].id
           /\ i' = i + 1
           /\ UNCHANGED <<remote, nextId, pc, outcome, exit_status, created_folders>>
        \/ /\ part # N_empty
           /\ files = <<>>
           /\ calls' = calls \o <<"list", "create_folder">>
           /\ HttpError
           /\ UNCHANGED <<remote, nextId, current_parent_id, i, created_folders>>
        \/ /\ part # N_empty
           /\ files = <<>>
           /\ calls' = calls \o <<"list", "create_folder">>
           /\ remote' = Append(remote, Node(nextId, part, current_parent_id,
                                             FOLDER, Raw(0), now))
           /\ nextId' = nextId + 1
           /\ created_folders' = created_folders \cup {nextId}
           /\ current_parent_id' = nextId
           /\ i' = i + 1
           /\ UNCHANGED <<pc, outcome, exit_status>>
  /\ UNCHANGED <<local, now, token, base_path_parts, args, remote_file,
                 effective_direction, local_opened, runs, edits, resolved,
                 prev_resolved, prev_upload, edited, local_before>>

\* get_remote_path_id returns the deepest folder's id.
get_remote_path_id ==
  /\ pc = "resolve"
  /\ i > Len(remote_folder_path_parts(args.path))
  /\ pc' = "find"
  /\ resolved' = [chain |-> remote_folder_path_parts(args.path),
                  id |-> current_parent_id]
  /\ UNCHANGED <<remote, nextId, local, now, token, base_path_parts, args,
                 run_vars, calls, local_opened, outcome, exit_status, runs, edits,
                 prev_resolved, created_folders, prev_upload, edited, local_before>>

\* main, the search for the remote counterpart.
FindRemoteFile ==
  /\ pc = "find"
  /\ calls' = Append(calls, "list")
  /\ \/ /\ HttpError
        /\ UNCHANGED remote_file
     \/ /\ remote_file' = find_remote_file(file_name_of(args.path), current_parent_id)
        /\ pc' = IF remote_file' = Nil THEN "upload_new" ELSE "compare"
        /\ UNCHANGED <<outcome, exit_status>>
  /\ UNCHANGED <<remote, nextId, local, now, token, base_path_parts, args, i,
                 current_parent_id, effective_direction, local_opened, runs, edits,
                 hist_vars>>

\* create_drive_file, from either of its two callers.
create_drive_file(what) ==
  /\ calls' = Append(calls, "create")
  /\ \/ /\ HttpError
        /\ UNCHANGED <<remote, nextId, now>>
     \/ /\ \E front \in BOOLEAN :
             remote' = Insert(remote,
                              UploadedNode(nextId, file_name_of(args.path),
                                           current_parent_id,
                                           local[args.path].content, now + 1),
                              front)
        /\ nextId' = nextId + 1
        /\ now' = now + 1
        /\ End(what, 0)

\* main, no remote counterpart: upload.
UploadNew ==
  /\ pc = "upload_new"
  /\ create_drive_file("uploaded")
  /\ UNCHANGED <<local, token, base_path_parts, args, run_vars, local_opened, runs,
                 edits, hist_vars>>

\* main, the comparison of the digests, which a native remote type skips.
is_native_google_doc == is_google_apps(remote_file.mimeType)

\* ContentIdentical reading a key the listing does not return: never equal.
ContentIdentical_WrongKey(local_content, remote_md5) ==
  calculate_md5(local_content) = <<"md5", None>>

\* local_md5 == remote_md5
ContentIdentical(local_content, remote_md5) ==
  calculate_md5(local_content) = remote_md5

CompareContent ==
  /\ pc = "compare"
  /\ IF is_native_google_doc
     THEN /\ pc' = "time"
          /\ UNCHANGED <<outcome, exit_status>>
     ELSE IF ContentIdentical(local[args.path].content, remote_file.md5Checksum)
          THEN End("identical", 0)
          ELSE /\ pc' = "time"
               /\ UNCHANGED <<outcome, exit_status>>
  /\ UNCHANGED <<remote, nextId, local, now, token, base_path_parts, args, run_vars,
                 calls, local_opened, runs, edits, hist_vars>>

\* EffectiveDirection with >= for >.
EffectiveDirection_NotStrict(direction, local_mtime, remote_mtime) ==
  IF direction = "auto"
  THEN IF local_mtime >= remote_mtime THEN "local-to-remote" ELSE "remote-to-local"
  ELSE direction

\* The direction the run works in.
EffectiveDirection(direction, local_mtime, remote_mtime) ==
  IF direction = "auto"
  THEN IF local_mtime > remote_mtime THEN "local-to-remote" ELSE "remote-to-local"
  ELSE direction

\* Branch updating a native type in place.
Branch_AlwaysUpdate(direction, local_mtime, remote_mtime, native) ==
  IF direction = "local-to-remote" /\ local_mtime > remote_mtime
  THEN "update"
  ELSE IF direction = "remote-to-local" /\ remote_mtime > local_mtime
       THEN "download"
       ELSE "skip"

\* Branch with >= for >.
Branch_NotStrict(direction, local_mtime, remote_mtime, native) ==
  IF direction = "local-to-remote" /\ local_mtime >= remote_mtime
  THEN IF native THEN "delete" ELSE "update"
  ELSE IF direction = "remote-to-local" /\ remote_mtime >= local_mtime
       THEN "download"
       ELSE "skip"

\* The branch main takes after the comparison of the modification times.
Branch(direction, local_mtime, remote_mtime, native) ==
  IF direction = "local-to-remote" /\ local_mtime > remote_mtime
  THEN IF native THEN "delete" ELSE "update"
  ELSE IF direction = "remote-to-local" /\ remote_mtime > local_mtime
       THEN "download"
       ELSE "skip"

CompareTime ==
  /\ pc = "time"
  /\ LET local_mtime == local[args.path].mtime
         remote_mtime == remote_file.modifiedTime
         dir == EffectiveDirection(args.direction, local_mtime, remote_mtime)
         to == Branch(dir, local_mtime, remote_mtime, is_native_google_doc)
     IN /\ effective_direction' = dir
        /\ IF to = "skip"
           THEN End("skip_not_newer", 0)
           ELSE /\ pc' = to
                /\ UNCHANGED <<outcome, exit_status>>
  /\ UNCHANGED <<remote, nextId, local, now, token, base_path_parts, args, i,
                 current_parent_id, remote_file, calls, local_opened, runs, edits,
                 hist_vars>>

\* main, local newer and the remote type native: the old file is deleted ...
DeleteOld ==
  /\ pc = "delete"
  /\ calls' = Append(calls, "delete")
  /\ \/ /\ HttpError
        /\ UNCHANGED remote
     \/ /\ remote' = Deleted(remote, remote_file.id)
        /\ pc' = "recreate"
        /\ UNCHANGED <<outcome, exit_status>>
  /\ UNCHANGED <<nextId, local, now, token, base_path_parts, args, run_vars,
                 local_opened, runs, edits, hist_vars>>

\* ... and the local file uploaded anew.
Recreate ==
  /\ pc = "recreate"
  /\ create_drive_file("recreated")
  /\ UNCHANGED <<local, token, base_path_parts, args, run_vars, local_opened, runs,
                 edits, hist_vars>>

\* main, local newer and the remote type not native: the bytes are replaced.
UpdateBinary ==
  /\ pc = "update"
  /\ calls' = Append(calls, "update")
  /\ \/ /\ HttpError
        /\ UNCHANGED <<remote, now>>
     \/ /\ remote' = Updated(remote, remote_file.id, local[args.path].content,
                             now + 1)
        /\ now' = now + 1
        /\ End("updated", 0)
  /\ UNCHANGED <<nextId, local, token, base_path_parts, args, run_vars,
                 local_opened, runs, edits, hist_vars>>

\* ExportMimeType falling back on a default format.
ExportMimeType_Default(remote_mime_type) ==
  IF remote_mime_type \in DOMAIN GOOGLE_DOC_EXPORT_MAP
  THEN GOOGLE_DOC_EXPORT_MAP[remote_mime_type]
  ELSE DOCX

\* The format a native type is exported in, or None.
ExportMimeType(remote_mime_type) ==
  IF remote_mime_type \in DOMAIN GOOGLE_DOC_EXPORT_MAP
  THEN GOOGLE_DOC_EXPORT_MAP[remote_mime_type]
  ELSE None

\* main, remote newer: a native type is exported, any other downloaded, into
\* the local file, which is opened (and so emptied) before the first chunk.
Download ==
  /\ pc = "download"
  /\ \/ /\ is_native_google_doc
        /\ ExportMimeType(remote_file.mimeType) = None
        /\ End("unsupported", 0)
        /\ UNCHANGED <<local, now, calls, local_opened>>
     \/ /\ is_native_google_doc => ExportMimeType(remote_file.mimeType) # None
        /\ calls' = Append(calls, IF is_native_google_doc
                                  THEN "export_media" ELSE "get_media")
        /\ local_opened' = TRUE
        /\ now' = now + 1
        /\ \/ /\ local' = [local EXCEPT ![args.path] =
                             [content |-> Truncated, mtime |-> now + 1]]
              /\ HttpError
           \/ /\ local' = [local EXCEPT ![args.path] =
                             [content |-> IF is_native_google_doc
                                          THEN Exported(remote_file.content)
                                          ELSE remote_file.content,
                              mtime |-> now + 1]]
              /\ End("downloaded", 0)
  /\ UNCHANGED <<remote, nextId, token, base_path_parts, args, run_vars, runs,
                 edits, hist_vars>>

\* The user changes a local file between two runs.
LocalEdit(path, content) ==
  /\ pc \in {"idle", "done"}
  /\ edits < MaxEdits
  /\ content # local[path].content
  /\ edits' = edits + 1
  /\ local' = [local EXCEPT ![path] = [content |-> content, mtime |-> now + 1]]
  /\ now' = now + 1
  /\ edited' = edited \cup {path}
  /\ UNCHANGED <<remote, nextId, token, base_path_parts, pc, args, run_vars, calls,
                 local_opened, outcome, exit_status, runs, resolved, prev_resolved,
                 created_folders, prev_upload, local_before>>

Next ==
  \/ \E path \in LocalPaths, direction \in Directions : Start(path, direction)
  \/ get_drive_service
  \/ get_or_create_folder_id
  \/ get_remote_path_id
  \/ FindRemoteFile
  \/ UploadNew
  \/ CompareContent
  \/ CompareTime
  \/ DeleteOld
  \/ Recreate
  \/ UpdateBinary
  \/ Download
  \/ \E path \in LocalFiles, content \in Contents : LocalEdit(path, content)

Spec == Init /\ [][Next]_vars

\* ------------------------------------------------------------------ claims
\* The calls of this run on files: transfers and deletions.
FileCalls ==
  SelectSeq(calls, LAMBDA c : c \in {"create", "delete", "update", "get_media",
                                     "export_media"})

IsPrefix(s, t) == Len(s) <= Len(t) /\ s = SubSeq(t, 1, Len(s))

InRun == pc \notin {"idle"} /\ args # Nil /\ args.path \in DOMAIN local

Found == InRun /\ remote_file # Nil

\* The run has not changed the local file (the user may have, once it ended).
LocalAsFound == args.path \in edited \/ local[args.path] = local_before

\* C1: resolving the same chain of folder names twice in a row returns the same
\* folder id, the second resolution creates no folder, and among the folders the
\* resolver created no two have the same name and parent.
C1_ResolutionIdempotent ==
  /\ (resolved # Nil /\ prev_resolved # Nil /\ resolved.chain = prev_resolved.chain)
       => /\ resolved.id = prev_resolved.id
          /\ \A k \in 1..Len(calls) : calls[k] # "create_folder"
  /\ \A j, k \in 1..Len(remote) :
       (/\ remote[j].id \in created_folders
        /\ remote[k].id \in created_folders
        /\ remote[j].name = remote[k].name
        /\ remote[j].parent = remote[k].parent) => j = k

\* A second resolution in a row of a chain whose last folder the resolver made.
C1_Witness ==
  /\ resolved # Nil /\ prev_resolved # Nil
  /\ resolved.chain = prev_resolved.chain
  /\ resolved.id \in created_folders

\* C2: a remote match that is not native and whose digest equals the local
\* file's ends the run as identical, whatever the mtimes and the direction: no
\* file call is made and the local file is not written.
C2_EqualDigestSkips ==
  (/\ Found
   /\ ~is_google_apps(remote_file.mimeType)
   /\ calculate_md5(local_before.content) = remote_file.md5Checksum)
    => /\ FileCalls = <<>>
       /\ ~local_opened
       /\ LocalAsFound
       /\ pc \in {"compare", "done"}
       /\ pc = "done" => outcome = "identical"

\* Identical content under local-to-remote with the local file the newer one.
C2_Witness ==
  /\ Found /\ pc = "done" /\ outcome = "identical"
  /\ args.direction = "local-to-remote"
  /\ local_before.mtime > remote_file.modifiedTime

\* The local-to-remote branch of main was taken.
TookLocalToRemote ==
  /\ Found
  /\ effective_direction = "local-to-remote"
  /\ local_before.mtime > remote_file.modifiedTime

\* C3: in the local-to-remote branch a native remote match is deleted and then
\* created anew, never updated in place; any other remote match gets one
\* in-place update and neither delete nor create.
C3_RemoteTypeDecides ==
  TookLocalToRemote
    => IF is_google_apps(remote_file.mimeType)
       THEN /\ IsPrefix(FileCalls, <<"delete", "create">>)
            /\ pc = "recreate" => remote_file.id \notin Ids(remote)
            /\ pc = "done" => FileCalls # <<>>
            /\ (pc = "done" /\ outcome # "api_error")
                 => /\ outcome = "recreated"
                    /\ FileCalls = <<"delete", "create">>
                    /\ remote_file.id \notin Ids(remote)
       ELSE /\ IsPrefix(FileCalls, <<"update">>)
            /\ pc = "done" => FileCalls = <<"update">>
            /\ (pc = "done" /\ outcome # "api_error") => outcome = "updated"

\* A native match recreated.
C3_Witness ==
  /\ TookLocalToRemote /\ pc = "done" /\ outcome = "recreated"
  /\ remote_file.mimeType = DOCUMENT

\* A binary match updated in place.
C3_WitnessBinary ==
  /\ TookLocalToRemote /\ pc = "done" /\ outcome = "updated"

\* The source side of an explicitly requested direction is not strictly newer.
SourceNotNewer ==
  /\ Found
  /\ \/ /\ args.direction = "remote-to-local"
        /\ remote_file.modifiedTime <= local_before.mtime
     \/ /\ args.direction = "local-to-remote"
        /\ local_before.mtime <= remote_file.modifiedTime

\* C4 as stated: under an explicit direction whose source side is not strictly
\* newer nothing is transferred and the run ends as 'skip - not newer'.
C4_Original ==
  SourceNotNewer
    => /\ FileCalls = <<>>
       /\ ~local_opened
       /\ LocalAsFound
       /\ pc = "done" => outcome = "skip_not_newer"

\* C4 amended: nothing is transferred, and the run ends as 'skip - not newer'
\* unless the match is not native and has the local file's digest, when it ends
\* as identical.
C4_NotNewerNoTransfer ==
  SourceNotNewer
    => /\ FileCalls = <<>>
       /\ ~local_opened
       /\ LocalAsFound
       /\ pc = "done"
            => outcome = IF /\ ~is_google_apps(remote_file.mimeType)
                            /\ calculate_md5(local_before.content)
                                 = remote_file.md5Checksum
                         THEN "identical"
                         ELSE "skip_not_newer"

\* An explicit remote-to-local run on a tie of the mtimes, skipped as not newer.
C4_Witness ==
  /\ SourceNotNewer /\ pc = "done" /\ outcome = "skip_not_newer"
  /\ args.direction = "remote-to-local"
  /\ remote_file.modifiedTime = local_before.mtime

\* C5: under auto the effective direction is local-to-remote exactly when the
\* local mtime is strictly greater than the remote one, else remote-to-local.
C5_AutoDirection ==
  (Found /\ args.direction = "auto" /\ effective_direction # None)
    => effective_direction =
         IF local_before.mtime > remote_file.modifiedTime
         THEN "local-to-remote"
         ELSE "remote-to-local"

\* An auto run on a tie of the mtimes.
C5_Witness ==
  /\ Found /\ args.direction = "auto"
  /\ effective_direction = "remote-to-local"
  /\ local_before.mtime = remote_file.modifiedTime

\* The listing find_remote_file picked from, while the store is as it was.
Listing ==
  FileQuery(file_name_of(args.path), splitext(file_name_of(args.path)),
            current_parent_id)

\* C6: of two listed matches of which one is native the locator returns the
\* native one, in either position; of an empty listing none; of a listing
\* without a native match the first.
C6_LocatorPrefersNative ==
  (InRun /\ pc \in {"upload_new", "compare", "time"})
    => /\ Listing = <<>> => remote_file = Nil
       /\ (/\ Len(Listing) = 2
           /\ \E k \in 1..2 : /\ is_google_apps(Listing[k].mimeType)
                              /\ ~is_google_apps(Listing[3 - k].mimeType))
            => /\ remote_file # Nil
               /\ is_google_apps(remote_file.mimeType)
               /\ \E k \in 1..2 : remote_file = Listing[k]
       /\ (/\ Listing # <<>>
           /\ \A k \in 1..Len(Listing) : ~is_google_apps(Listing[k].mimeType))
            => remote_file = Listing[1]

\* The native match listed second is returned.
C6_Witness ==
  /\ InRun /\ pc = "compare"
  /\ Len(Listing) = 2
  /\ ~is_google_apps(Listing[1].mimeType)
  /\ is_google_apps(Listing[2].mimeType)
  /\ remote_file = Listing[2]

\* The native match listed first is returned.
C6_WitnessFirst ==
  /\ InRun /\ pc = "compare"
  /\ Len(Listing) = 2
  /\ is_google_apps(Listing[1].mimeType)
  /\ ~is_google_apps(Listing[2].mimeType)
  /\ remote_file = Listing[1]

\* C7: a run that ends in an error exits non-zero, a run that ends in a success
\* or skip summary exits zero.
C7_ErrorsExitNonZero ==
  pc = "done"
    => /\ outcome \in {"not_a_file", "no_credentials", "api_error", "unknown_error"}
            => exit_status # 0
       /\ outcome \in {"uploaded", "identical", "recreated", "updated", "downloaded",
                       "skip_not_newer"}
            => exit_status = 0

\* The remote-to-local branch was taken for a native type without export format.
NoExportFormat ==
  /\ Found
  /\ effective_direction = "remote-to-local"
  /\ remote_file.modifiedTime > local_before.mtime
  /\ is_google_apps(remote_file.mimeType)
  /\ remote_file.mimeType \notin DOMAIN GOOGLE_DOC_EXPORT_MAP

\* C8: a native match without an export format, in the remote-to-local branch,
\* is reported as unsupported: no file call, the local file neither opened nor
\* changed.
C8_UnsupportedAborts ==
  NoExportFormat
    => /\ FileCalls = <<>>
       /\ ~local_opened
       /\ LocalAsFound
       /\ pc \in {"time", "download", "done"}
       /\ pc = "done" => outcome = "unsupported"

\* A drawing, reported as unsupported.
C8_Witness ==
  /\ NoExportFormat /\ pc = "done" /\ outcome = "unsupported"
  /\ remote_file.mimeType = DRAWING

\* C9: what the locator returns is never a folder.
C9_NeverAFolder ==
  Found => remote_file.mimeType # FOLDER

\* A run deletes a folder the resolver created.
C9_FolderDeleted ==
  /\ Found /\ remote_file.mimeType = FOLDER
  /\ remote_file.id \in created_folders
  /\ pc = "recreate"

\* C10: the auto run after an auto run that uploaded the file as new, the file
\* not edited in between, transfers nothing.
C10_SecondRunTransfersNothing ==
  (InRun /\ prev_upload # NoPath /\ args.path = prev_upload /\ args.direction = "auto")
    => /\ FileCalls = <<>>
       /\ ~local_opened
       /\ LocalAsFound

\* The binary case of C10: the second run finds the content identical.
C10_BinaryConverges ==
  /\ InRun /\ prev_upload = P_r /\ args.path = P_r /\ args.direction = "auto"
  /\ pc = "done" /\ outcome = "identical"

====
